---- MODULE Spec2Model ----
(***************************************************************************)
(* Model of the submission-preview service: the PreviewStore service       *)
(* integration (src/preview/services/store.py) and the request controllers *)
(* that call it (src/preview/controllers.py), running against an S3        *)
(* bucket.  Every request is carried out by a worker; one action is one    *)
(* backend call together with the local code around it, so that requests   *)
(* of different workers interleave between backend calls.                  *)
(*                                                                         *)
(* Timestamps (Metadata.added, LastModified) are not represented.          *)
(***************************************************************************)
EXTENDS Integers, Sequences, FiniteSets, TLC

\* ---------------------------------------------------------------- inputs

\* The concurrent workers that serve requests.
Procs == {1, 2}

\* Identities (source_id, checksum) that requests name.
SourceIds == {"1234", "5678"}
Checksums == {"foohash1=="}

\* Byte strings that are deposited.
Bodies == {"foocontent", "barcontent"}

\* Python's None and a present optional value.
None == <<>>
Some(x) == <<x>>

\* ------------------------------------------------------- pure functions

\* b64encode(md5(body).digest()), tabulated for the byte strings in use.
hash_content(body) ==
    CASE body = "foocontent" -> "ewrggAHdCT55M1uUfwKLEA=="
      [] body = "barcontent" -> "uW94u/u4xfDA3lcVd354ng=="
      [] body = "test"       -> "CY9rzUYh03PK3k6DJie09g=="
      [] OTHER               -> "1B2M2Y8AsgTpgAmY7PhCfg=="

\* The ETag S3 assigns to an object written by one put_object: the MD5
\* digest of the bytes in hexadecimal, inside double quotes.
S3ETag(body) ==
    CASE body = "foocontent" -> "\"7b0ae08001dd093e79335b947f028b10\""
      [] body = "barcontent" -> "\"b96f78bbfbb8c5f0c0de5715777e789e\""
      [] body = "test"       -> "\"098f6bcd4621d373cade4e832627b4f6\""
      [] OTHER               -> "\"d41d8cd98f00b204e9800998ecf8427e\""

\* _key without the checksum segment: the key names the source only.
_key_without_checksum(source_id, checksum) ==
    "preview/" \o source_id \o "/" \o source_id \o ".pdf"

_key(source_id, checksum) ==
    "preview/" \o source_id \o "/" \o checksum \o "/" \o source_id \o ".pdf"

\* A test object kept among the previews, under the key of an identity.
StatKey_among_previews == "preview/1234/foohash1==/1234.pdf"

\* The key of the availability probe's test object.
StatKey == "stat"

Identities == SourceIds \X Checksums
Keys == {_key(i[1], i[2]) : i \in Identities} \cup {StatKey}

\* Domain objects.
Stream(bytes, pos) == [bytes |-> bytes, pos |-> pos]
Content(stream) == [stream |-> stream]
Metadata(checksum, size_bytes) ==
    [checksum |-> checksum, size_bytes |-> size_bytes]
Preview(source_id, checksum, metadata, content) ==
    [source_id |-> source_id, checksum |-> checksum,
     metadata |-> metadata, content |-> content]

\* How a call ends: a returned value or a raised exception.
Return(v) == [kind |-> "return", value |-> v]
Raise(e) == [kind |-> "raise", exc |-> e]

\* ---------------------------------------------------------------- state

VARIABLES
    bucket,     \* "absent", "creating" (created, not yet reported) or "exists"
    objects,    \* key -> None or Some(bytes): the objects of the bucket
    pc,         \* worker -> position in its request
    req,        \* worker -> the request it serves
    loc,        \* worker -> local values kept between backend calls
    calls,      \* worker -> the backend calls made so far for the request
    ret,        \* worker -> how the request ended
    g,          \* worker -> None outside an application context, or
                \*           Some(the store kept in its application global)
    sessions,   \* the PreviewStore objects constructed so far, in order
    returned    \* worker -> the sessions current_session has returned to it
                \*           since it entered or left its context

session_vars == <<g, sessions, returned>>
vars == <<bucket, objects, pc, req, loc, calls, ret, g, sessions, returned>>

\* -------------------------------------------------------------- backend

\* What can go wrong with a backend call whatever the bucket holds: nothing,
\* an error response of the service (a ClientError with that code), or a
\* failure to reach the service (a botocore error that is not a ClientError).
Faults == {"none", "InternalError", "transport"}

OkResp(r) == [ok |-> TRUE, resp |-> r]
ClientError(code) == [ok |-> FALSE, exc |-> "ClientError", code |-> code]
BotoCoreError == [ok |-> FALSE, exc |-> "BotoCoreError", code |-> ""]
Fault(f) == IF f = "transport" THEN BotoCoreError ELSE ClientError(f)

\* client.put_object(Body, Bucket, Key[, ContentMD5]): S3 rejects a body whose
\* MD5 is not ContentMD5, and any write to a bucket it does not report.
put_object(Body, Key, ContentMD5, f) ==
    IF f # "none" THEN Fault(f)
    ELSE IF bucket # "exists" THEN ClientError("NoSuchBucket")
    ELSE IF ContentMD5 # None /\ ContentMD5 # Some(hash_content(Body))
         THEN ClientError("BadDigest")
    ELSE OkResp([ETag |-> S3ETag(Body)])

\* The bucket's objects after a put_object that answered r.
Stored(r, Key, Body) ==
    IF r.ok THEN [objects EXCEPT ![Key] = Some(Body)] ELSE objects

\* client.head_object(Bucket, Key): a HEAD response has no body, so a missing
\* object or bucket is reported with the code "404".
head_object(Key, f) ==
    IF f # "none" THEN Fault(f)
    ELSE IF bucket # "exists" \/ objects[Key] = None THEN ClientError("404")
    ELSE OkResp([ETag |-> S3ETag(objects[Key][1]),
                 ContentLength |-> Len(objects[Key][1])])

\* client.get_object(Bucket, Key): the body is a fresh stream at its start.
get_object(Key, f) ==
    IF f # "none" THEN Fault(f)
    ELSE IF bucket # "exists" THEN ClientError("NoSuchBucket")
    ELSE IF objects[Key] = None THEN ClientError("NoSuchKey")
    ELSE OkResp([ETag |-> S3ETag(objects[Key][1]),
                 ContentLength |-> Len(objects[Key][1]),
                 Body |-> Stream(objects[Key][1], 0)])

\* client.create_bucket(Bucket) in the default region: creating a bucket one
\* already owns succeeds again.
create_bucket(f) == IF f # "none" THEN Fault(f) ELSE OkResp([Location |-> "/"])

\* One HeadBucket poll of the 'bucket_exists' waiter.
head_bucket(f) ==
    IF f # "none" THEN Fault(f)
    ELSE IF bucket # "exists" THEN ClientError("404")
    ELSE OkResp([Bucket |-> "exists"])

\* ---------------------------------------------------------------- store

\* _handle_client_error without its test for the code of a missing object.
_handle_client_error_no_such_key_unclassified(code) ==
    IF code = "NoSuchBucket" THEN "NoSuchBucket"
    ELSE "RuntimeError"

\* PreviewStore._handle_client_error: the exception it raises for a code.
_handle_client_error(code) ==
    IF code = "NoSuchBucket" THEN "NoSuchBucket"
    ELSE IF code = "NoSuchKey" THEN "DoesNotExist"
    ELSE "RuntimeError"

\* 'except ClientError as e: self._handle_client_error(e)' around a backend
\* call that answered the error r; any other exception is not caught.
Caught(r) ==
    IF r.exc = "ClientError" THEN Raise(_handle_client_error(r.code))
    ELSE Raise(r.exc)

\* stream.read(): the bytes from the position to the end.
read(stream) == IF stream.pos = 0 THEN stream.bytes ELSE ""

\* PreviewStore._test_put, given the answer r of its put_object.
_test_put(r) == IF r.ok THEN Return(None) ELSE Caught(r)

\* PreviewStore.is_available, given the answer r of the probe's put_object.
is_available(r) ==
    LET t == _test_put(r)
    IN  IF t.kind = "return" THEN Return(TRUE)
        ELSE IF t.exc = "RuntimeError" THEN Return(FALSE)
        ELSE t

\* deposit without its check of the content: preview.content.stream of a
\* missing content raises AttributeError.
deposit_content_unchecked(preview, r) ==
    IF preview.content = None THEN Raise("AttributeError")
    ELSE LET content == preview.content[1]
             body == read(content.stream)
             preview_checksum == hash_content(body)
         IN  IF r.ok
             THEN Return(Preview(preview.source_id, preview.checksum,
                                 Some(Metadata(preview_checksum, Len(body))),
                                 Some(Content(Stream(content.stream.bytes,
                                                     Len(content.stream.bytes))))))
             ELSE IF r.exc = "ClientError"
             THEN IF _handle_client_error(r.code) = "RuntimeError"
                  THEN Raise("DepositFailed")
                  ELSE Raise(_handle_client_error(r.code))
             ELSE Raise(r.exc)

\* PreviewStore.deposit, given the answer r of its put_object (no call is
\* made when the content is missing).
deposit(preview, r) ==
    IF preview.content = None THEN Raise("DepositFailed")
    ELSE LET content == preview.content[1]
             body == read(content.stream)
             preview_checksum == hash_content(body)
         IN  IF r.ok
             THEN Return(Preview(preview.source_id, preview.checksum,
                                 Some(Metadata(preview_checksum, Len(body))),
                                 Some(Content(Stream(content.stream.bytes,
                                                     Len(content.stream.bytes))))))
             ELSE IF r.exc = "ClientError"
             THEN IF _handle_client_error(r.code) = "RuntimeError"
                  THEN Raise("DepositFailed")
                  ELSE Raise(_handle_client_error(r.code))
             ELSE Raise(r.exc)

\* PreviewStore.get_metadata, given the answer r of its head_object.
get_metadata(r) ==
    IF r.ok THEN Return(Metadata(r.resp.ETag, r.resp.ContentLength))
    ELSE Caught(r)

\* PreviewStore.get_preview_checksum, given the answer r of its head_object.
get_preview_checksum(r) == IF r.ok THEN Return(r.resp.ETag) ELSE Caught(r)

\* PreviewStore.get_preview, given the answer r of its get_object.
get_preview(source_id, checksum, r) ==
    IF r.ok
    THEN Return(Preview(source_id, checksum,
                        Some(Metadata(r.resp.ETag, r.resp.ContentLength)),
                        Some(Content(r.resp.Body))))
    ELSE Caught(r)

\* ---------------------------------------------------------- controllers

Response(data, status, headers) ==
    [data |-> data, status |-> status, headers |-> headers]

\* service_status without its test of what is_available returned.
service_status_unconditional(a) ==
    IF a.kind = "raise" THEN a
    ELSE Return(Response([iam |-> "ok"], "OK", <<>>))

\* service_status, given how st.is_available ended.
service_status(a) ==
    IF a.kind = "raise" THEN a
    ELSE IF ~a.value THEN Raise("ServiceUnavailable")
    ELSE Return(Response([iam |-> "ok"], "OK", <<>>))

\* check_preview_exists, given how st.get_preview_checksum ended.
check_preview_exists(c) ==
    IF c.kind = "raise"
    THEN IF c.exc = "DoesNotExist" THEN Raise("NotFound") ELSE c
    ELSE Return(Response(<<>>, "OK", [ETag |-> c.value]))

\* get_preview_metadata, given how st.get_metadata ended.
get_preview_metadata(m) ==
    IF m.kind = "raise"
    THEN IF m.exc = "DoesNotExist" THEN Raise("NotFound") ELSE m
    ELSE Return(Response([checksum |-> m.value.checksum,
                          size_bytes |-> m.value.size_bytes],
                         "OK", [ETag |-> m.value.checksum]))

\* not_modified with the comparison of the tags inverted.
not_modified_inverted(none_match, c) ==
    IF c.kind = "raise"
    THEN IF c.exc = "DoesNotExist" THEN Raise("NotFound") ELSE c
    ELSE IF none_match # Some(c.value)
    THEN Return(Response(None, "NOT_MODIFIED", [ETag |-> c.value]))
    ELSE [kind |-> "continue"]

\* get_preview_content up to the end of its 'if none_match is not None'
\* block, given how st.get_preview_checksum ended: the response or the
\* exception it ends with there, or "continue" to go on to st.get_preview.
not_modified(none_match, c) ==
    IF c.kind = "raise"
    THEN IF c.exc = "DoesNotExist" THEN Raise("NotFound") ELSE c
    ELSE IF none_match = Some(c.value)
    THEN Return(Response(None, "NOT_MODIFIED", [ETag |-> c.value]))
    ELSE [kind |-> "continue"]

\* get_preview_content with the identity's checksum as the entity tag.
get_preview_content_identity_tag(v) ==
    IF v.kind = "raise"
    THEN IF v.exc = "DoesNotExist" THEN Raise("NotFound") ELSE v
    ELSE IF v.value.metadata = None \/ v.value.content = None
    THEN Raise("InternalServerError")
    ELSE Return(Response(v.value.content[1].stream, "OK",
                         [ETag |-> v.value.checksum,
                          Content_type |-> "application/pdf",
                          Content_Length |-> v.value.metadata[1].size_bytes]))

\* get_preview_content from its st.get_preview call on, given how that ended.
get_preview_content(v) ==
    IF v.kind = "raise"
    THEN IF v.exc = "DoesNotExist" THEN Raise("NotFound") ELSE v
    ELSE IF v.value.metadata = None \/ v.value.content = None
    THEN Raise("InternalServerError")
    ELSE Return(Response(v.value.content[1].stream, "OK",
                         [ETag |-> v.value.metadata[1].checksum,
                          Content_type |-> "application/pdf",
                          Content_Length |-> v.value.metadata[1].size_bytes]))

\* The parameters PreviewStore.deposit declares besides self, and the keyword
\* arguments deposit_preview passes besides the preview.
deposit_parameters == {"preview"}
deposit_keywords == {"overwrite", "checksum"}

\* Python binds a call's arguments before the body runs: a keyword that names
\* no parameter raises TypeError and the body never runs.
Accepts(parameters, keywords) == keywords \subseteq parameters

\* deposit_preview, given how its st.deposit call ended.
deposit_preview(d) ==
    IF d.kind = "raise"
    THEN IF d.exc = "DepositFailed" THEN Raise("InternalServerError")
         ELSE IF d.exc = "PreviewAlreadyExists" THEN Raise("Conflict")
         ELSE d
    ELSE IF d.value.metadata = None THEN Raise("InternalServerError")
    ELSE Return(Response([checksum |-> d.value.metadata[1].checksum,
                          size_bytes |-> d.value.metadata[1].size_bytes],
                         "CREATED",
                         [ETag |-> d.value.metadata[1].checksum]))

\* -------------------------------------------------------------- requests

\* Entity tags a client may send as If-None-Match: none, the tag of a stored
\* object, or the checksum a deposit reported.
NoneMatches ==
    {None, Some(S3ETag("foocontent")), Some(hash_content("foocontent"))}

DepositRequests ==
    [op : {"deposit"}, source_id : SourceIds, checksum : Checksums,
     content : {None} \cup {Some(Content(Stream(b, 0))) : b \in Bodies}]
RetrievalRequests ==
    [op : {"get_metadata", "get_preview_checksum", "get_preview",
           "check_preview_exists", "get_preview_metadata"},
     source_id : SourceIds, checksum : Checksums]
ContentRequests ==
    [op : {"get_preview_content"}, source_id : SourceIds,
     checksum : Checksums, none_match : NoneMatches]
DepositPreviewRequests ==
    [op : {"deposit_preview"}, source_id : SourceIds, checksum : Checksums,
     stream : {Stream(b, 0) : b \in Bodies},
     content_checksum : {None, Some(hash_content("foocontent"))},
     overwrite : BOOLEAN]
ProbeRequests == [op : {"is_available", "initialize", "service_status"}]

Requests ==
    DepositRequests \cup RetrievalRequests \cup ContentRequests
        \cup DepositPreviewRequests \cup ProbeRequests

NoRequest == [op |-> "none"]
Running == [kind |-> "running"]

HasIdentity(r) == r \notin ProbeRequests /\ r # NoRequest
KeyOf(r) == _key(r.source_id, r.checksum)

\* The record of one backend call: its name and the error it answered.
Call(name, r) ==
    [call |-> name,
     err |-> IF r.ok THEN "none"
             ELSE IF r.exc = "ClientError" THEN r.code ELSE r.exc]

\* initialize's _wait_for_bucket(retries=5, delay=5): the waiter's MaxAttempts.
WaitRetries == 5

\* The retry budgets of the short-lived clients (Config(retries=
\* {'max_attempts': retries})): initialize's probe, initialize's
\* _create_bucket, and the probe of service_status.  is_available called
\* with its defaults has retries=0 and is attempted once.
ProbeRetries == 20
CreateRetries == 5
StatusRetries == 1

\* The client sends a request again, without returning to its caller, when
\* the answer is a failure to reach the service or a server-side error, as
\* long as fewer than 'retries' retries were made (n so far).
Retryable(r) == ~r.ok /\ (r.exc = "BotoCoreError" \/ r.code = "InternalError")

\* Retries with no budget: the request is sent again after every such answer.
Retries_unbounded(r, retries, n) == Retryable(r)
Retries(r, retries, n) == Retryable(r) /\ n < retries

\* --------------------------------------------------------------- actions

NoLocals == [pre |-> None, attempts |-> 0]

\* No worker is in an application context and no session was constructed.
SessionInit ==
    /\ g = [p \in Procs |-> None]
    /\ sessions = <<>>
    /\ returned = [p \in Procs |-> {}]

Init ==
    /\ SessionInit
    /\ bucket \in {"absent", "exists"}
    /\ objects = [k \in Keys |-> None]
    /\ pc = [p \in Procs |-> "idle"]
    /\ req = [p \in Procs |-> NoRequest]
    /\ loc = [p \in Procs |-> NoLocals]
    /\ calls = [p \in Procs |-> <<>>]
    /\ ret = [p \in Procs |-> Running]

\* Worker p goes to position newpc, its request having ended with outcome
\* (Running while it goes on) after the backend calls newcalls.
Goto(p, newpc, outcome, newcalls) ==
    /\ pc' = [pc EXCEPT ![p] = newpc]
    /\ ret' = [ret EXCEPT ![p] = outcome]
    /\ calls' = [calls EXCEPT ![p] = newcalls]

\* A request arrives at idle worker p; pre keeps what the bucket holds for
\* the request's identity at that moment.
Start(p) ==
    /\ pc[p] = "idle"
    /\ \E r \in Requests :
          /\ req' = [req EXCEPT ![p] = r]
          /\ loc' = [loc EXCEPT ![p] =
                        [pre |-> IF HasIdentity(r) THEN objects[KeyOf(r)]
                                 ELSE None,
                         attempts |-> 0]]
    /\ Goto(p, "called", Running, <<>>)
    /\ UNCHANGED <<bucket, objects>>
    /\ UNCHANGED session_vars

\* The response has been delivered; worker p is free again.
Finish(p) ==
    /\ pc[p] = "done"
    /\ req' = [req EXCEPT ![p] = NoRequest]
    /\ loc' = [loc EXCEPT ![p] = NoLocals]
    /\ Goto(p, "idle", Running, <<>>)
    /\ UNCHANGED <<bucket, objects>>
    /\ UNCHANGED session_vars

\* Deposit that removes the object of the identity before it writes, so
\* that a write that fails leaves no object.
Deposit_delete_first(p) ==
    /\ pc[p] = "called" /\ req[p].op = "deposit"
    /\ LET preview == Preview(req[p].source_id, req[p].checksum, None,
                              req[p].content)
       IN  IF preview.content = None
           THEN /\ Goto(p, "done", deposit(preview, BotoCoreError), calls[p])
                /\ UNCHANGED objects
           ELSE \E f \in Faults :
                  LET body == read(preview.content[1].stream)
                      key == _key(preview.source_id, preview.checksum)
                      r == put_object(body, key, Some(hash_content(body)), f)
                  IN  /\ objects' = [objects EXCEPT
                                        ![key] = IF r.ok THEN Some(body)
                                                 ELSE None]
                      /\ Goto(p, "done", deposit(preview, r),
                              Append(calls[p], Call("put_object", r)))
    /\ UNCHANGED <<bucket, req, loc>>
    /\ UNCHANGED session_vars

\* PreviewStore.deposit(preview), called on the store.
Deposit(p) ==
    /\ pc[p] = "called" /\ req[p].op = "deposit"
    /\ LET preview == Preview(req[p].source_id, req[p].checksum, None,
                              req[p].content)
       IN  IF preview.content = None
           THEN /\ Goto(p, "done", deposit(preview, BotoCoreError), calls[p])
                /\ UNCHANGED objects
           ELSE \E f \in Faults :
                  LET body == read(preview.content[1].stream)
                      key == _key(preview.source_id, preview.checksum)
                      r == put_object(body, key, Some(hash_content(body)), f)
                  IN  /\ objects' = Stored(r, key, body)
                      /\ Goto(p, "done", deposit(preview, r),
                              Append(calls[p], Call("put_object", r)))
    /\ UNCHANGED <<bucket, req, loc>>
    /\ UNCHANGED session_vars

\* deposit_preview: the controller's st.deposit(preview, overwrite=...,
\* checksum=...) and the response it builds.
DepositPreview(p) ==
    /\ pc[p] = "called" /\ req[p].op = "deposit_preview"
    /\ LET preview == Preview(req[p].source_id, req[p].checksum, None,
                              Some(Content(req[p].stream)))
       IN  IF ~Accepts(deposit_parameters, deposit_keywords)
           THEN /\ Goto(p, "done", deposit_preview(Raise("TypeError")),
                        calls[p])
                /\ UNCHANGED objects
           ELSE \E f \in Faults :
                  LET body == read(req[p].stream)
                      key == _key(preview.source_id, preview.checksum)
                      r == put_object(body, key, Some(hash_content(body)), f)
                  IN  /\ objects' = Stored(r, key, body)
                      /\ Goto(p, "done", deposit_preview(deposit(preview, r)),
                              Append(calls[p], Call("put_object", r)))
    /\ UNCHANGED <<bucket, req, loc>>
    /\ UNCHANGED session_vars

\* PreviewStore.get_metadata, called on the store.
GetMetadata(p) ==
    /\ pc[p] = "called" /\ req[p].op = "get_metadata"
    /\ \E f \in Faults :
          LET r == head_object(KeyOf(req[p]), f)
          IN  Goto(p, "done", get_metadata(r),
                   Append(calls[p], Call("head_object", r)))
    /\ UNCHANGED <<bucket, objects, req, loc>>
    /\ UNCHANGED session_vars

\* PreviewStore.get_preview_checksum, called on the store.
GetPreviewChecksum(p) ==
    /\ pc[p] = "called" /\ req[p].op = "get_preview_checksum"
    /\ \E f \in Faults :
          LET r == head_object(KeyOf(req[p]), f)
          IN  Goto(p, "done", get_preview_checksum(r),
                   Append(calls[p], Call("head_object", r)))
    /\ UNCHANGED <<bucket, objects, req, loc>>
    /\ UNCHANGED session_vars

\* GetPreview that removes the object it has read.
GetPreview_removing(p) ==
    /\ pc[p] = "called" /\ req[p].op = "get_preview"
    /\ \E f \in Faults :
          LET r == get_object(KeyOf(req[p]), f)
          IN  /\ objects' = IF r.ok
                            THEN [objects EXCEPT ![KeyOf(req[p])] = None]
                            ELSE objects
              /\ Goto(p, "done",
                      get_preview(req[p].source_id, req[p].checksum, r),
                      Append(calls[p], Call("get_object", r)))
    /\ UNCHANGED <<bucket, req, loc>>
    /\ UNCHANGED session_vars

\* PreviewStore.get_preview, called on the store.
GetPreview(p) ==
    /\ pc[p] = "called" /\ req[p].op = "get_preview"
    /\ \E f \in Faults :
          LET r == get_object(KeyOf(req[p]), f)
          IN  Goto(p, "done",
                   get_preview(req[p].source_id, req[p].checksum, r),
                   Append(calls[p], Call("get_object", r)))
    /\ UNCHANGED <<bucket, objects, req, loc>>
    /\ UNCHANGED session_vars

\* The controller check_preview_exists.
CheckPreviewExists(p) ==
    /\ pc[p] = "called" /\ req[p].op = "check_preview_exists"
    /\ \E f \in Faults :
          LET r == head_object(KeyOf(req[p]), f)
          IN  Goto(p, "done", check_preview_exists(get_preview_checksum(r)),
                   Append(calls[p], Call("head_object", r)))
    /\ UNCHANGED <<bucket, objects, req, loc>>
    /\ UNCHANGED session_vars

\* The controller get_preview_metadata.
GetPreviewMetadata(p) ==
    /\ pc[p] = "called" /\ req[p].op = "get_preview_metadata"
    /\ \E f \in Faults :
          LET r == head_object(KeyOf(req[p]), f)
          IN  Goto(p, "done", get_preview_metadata(get_metadata(r)),
                   Append(calls[p], Call("head_object", r)))
    /\ UNCHANGED <<bucket, objects, req, loc>>
    /\ UNCHANGED session_vars

\* The controller get_preview_content with an If-None-Match tag, up to the
\* end of its 'if none_match is not None' block.
ContentChecksum(p) ==
    /\ pc[p] = "called" /\ req[p].op = "get_preview_content"
    /\ req[p].none_match # None
    /\ \E f \in Faults :
          LET r == head_object(KeyOf(req[p]), f)
              n == not_modified(req[p].none_match, get_preview_checksum(r))
              c == Append(calls[p], Call("head_object", r))
          IN  IF n.kind = "continue"
              THEN Goto(p, "get", Running, c)
              ELSE Goto(p, "done", n, c)
    /\ UNCHANGED <<bucket, objects, req, loc>>
    /\ UNCHANGED session_vars

\* ContentPreview with the metadata of the object that was stored when the
\* request arrived, in place of the metadata of the object it reads.
ContentPreview_earlier_metadata(p) ==
    /\ req[p].op = "get_preview_content"
    /\ \/ pc[p] = "called" /\ req[p].none_match = None
       \/ pc[p] = "get"
    /\ \E f \in Faults :
          LET r == get_object(KeyOf(req[p]), f)
              v == get_preview(req[p].source_id, req[p].checksum, r)
              w == IF v.kind = "return" /\ loc[p].pre # None
                   THEN [v EXCEPT !.value.metadata =
                            Some(Metadata(S3ETag(loc[p].pre[1]),
                                          Len(loc[p].pre[1])))]
                   ELSE v
          IN  Goto(p, "done", get_preview_content(w),
                   Append(calls[p], Call("get_object", r)))
    /\ UNCHANGED <<bucket, objects, req, loc>>
    /\ UNCHANGED session_vars

\* The controller get_preview_content from its st.get_preview call on.
ContentPreview(p) ==
    /\ req[p].op = "get_preview_content"
    /\ \/ pc[p] = "called" /\ req[p].none_match = None
       \/ pc[p] = "get"
    /\ \E f \in Faults :
          LET r == get_object(KeyOf(req[p]), f)
          IN  Goto(p, "done",
                   get_preview_content(
                       get_preview(req[p].source_id, req[p].checksum, r)),
                   Append(calls[p], Call("get_object", r)))
    /\ UNCHANGED <<bucket, objects, req, loc>>
    /\ UNCHANGED session_vars

\* PreviewStore.is_available, called on the store.
IsAvailable(p) ==
    /\ pc[p] = "called" /\ req[p].op = "is_available"
    /\ \E f \in Faults :
          LET r == put_object("test", StatKey, None, f)
          IN  /\ objects' = Stored(r, StatKey, "test")
              /\ Goto(p, "done", is_available(r),
                      Append(calls[p], Call("put_object", r)))
    /\ UNCHANGED <<bucket, req, loc>>
    /\ UNCHANGED session_vars

\* ServiceStatus with the retry made by the store: is_available calls
\* put_object again itself after an answer worth a retry.
ServiceStatus_resending(p) ==
    /\ pc[p] = "called" /\ req[p].op = "service_status"
    /\ \E f \in Faults :
          LET r == put_object("test", StatKey, None, f)
              c == Append(calls[p], Call("put_object", r))
          IN  IF Retries(r, StatusRetries, loc[p].attempts)
              THEN /\ loc' = [loc EXCEPT ![p].attempts = @ + 1]
                   /\ calls' = [calls EXCEPT ![p] = c]
                   /\ UNCHANGED <<objects, pc, ret>>
              ELSE /\ objects' = Stored(r, StatKey, "test")
                   /\ loc' = [loc EXCEPT ![p].attempts = 0]
                   /\ Goto(p, "done", service_status(is_available(r)), c)
    /\ UNCHANGED <<bucket, req>>
    /\ UNCHANGED session_vars

\* The controller service_status: is_available(retries=1).
ServiceStatus(p) ==
    /\ pc[p] = "called" /\ req[p].op = "service_status"
    /\ \E f \in Faults :
          LET r == put_object("test", StatKey, None, f)
          IN  IF Retries(r, StatusRetries, loc[p].attempts)
              THEN /\ loc' = [loc EXCEPT ![p].attempts = @ + 1]
                   /\ UNCHANGED <<objects, pc, ret, calls>>
              ELSE /\ objects' = Stored(r, StatKey, "test")
                   /\ loc' = [loc EXCEPT ![p].attempts = 0]
                   /\ Goto(p, "done", service_status(is_available(r)),
                           Append(calls[p], Call("put_object", r)))
    /\ UNCHANGED <<bucket, req>>
    /\ UNCHANGED session_vars

\* InitializeProbe without the final raise: initialize returns when
\* is_available returned False.
InitializeProbe_no_raise(p) ==
    /\ pc[p] = "called" /\ req[p].op = "initialize"
    /\ \E f \in Faults :
          LET r == put_object("test", StatKey, None, f)
              a == is_available(r)
              c == Append(calls[p], Call("put_object", r))
          IN  IF Retries(r, ProbeRetries, loc[p].attempts)
              THEN /\ loc' = [loc EXCEPT ![p].attempts = @ + 1]
                   /\ UNCHANGED <<objects, pc, ret, calls>>
              ELSE /\ objects' = Stored(r, StatKey, "test")
                   /\ loc' = [loc EXCEPT ![p].attempts = 0]
                   /\ IF a.kind = "return"
                      THEN Goto(p, "done", Return(None), c)
                      ELSE IF a.exc = "NoSuchBucket"
                      THEN Goto(p, "create", Running, c)
                      ELSE Goto(p, "done", a, c)
    /\ UNCHANGED <<bucket, req>>
    /\ UNCHANGED session_vars

\* PreviewStore.initialize up to the end of its try statement's body: the
\* probe is_available(retries=20), and what initialize does with how it
\* ended.
InitializeProbe(p) ==
    /\ pc[p] = "called" /\ req[p].op = "initialize"
    /\ \E f \in Faults :
          LET r == put_object("test", StatKey, None, f)
              a == is_available(r)
              c == Append(calls[p], Call("put_object", r))
          IN  IF Retries(r, ProbeRetries, loc[p].attempts)
              THEN /\ loc' = [loc EXCEPT ![p].attempts = @ + 1]
                   /\ UNCHANGED <<objects, pc, ret, calls>>
              ELSE /\ objects' = Stored(r, StatKey, "test")
                   /\ loc' = [loc EXCEPT ![p].attempts = 0]
                   /\ IF a.kind = "return"
                      THEN IF a.value
                           THEN Goto(p, "done", Return(None), c)
                           ELSE Goto(p, "done", Raise("RuntimeError"), c)
                      ELSE IF a.exc = "NoSuchBucket"
                      THEN Goto(p, "create", Running, c)
                      ELSE Goto(p, "done", a, c)
    /\ UNCHANGED <<bucket, req>>
    /\ UNCHANGED session_vars

\* InitializeCreate without the wait for the bucket: initialize returns as
\* soon as create_bucket has succeeded.
InitializeCreate_no_wait(p) ==
    /\ pc[p] = "create"
    /\ \E f \in Faults :
          LET r == create_bucket(f)
              c == Append(calls[p], Call("create_bucket", r))
          IN  IF Retries(r, CreateRetries, loc[p].attempts)
              THEN /\ loc' = [loc EXCEPT ![p].attempts = @ + 1]
                   /\ UNCHANGED <<bucket, pc, ret, calls>>
              ELSE /\ loc' = [loc EXCEPT ![p].attempts = 0]
                   /\ IF r.ok
                      THEN /\ bucket' = IF bucket = "absent" THEN "creating"
                                        ELSE bucket
                           /\ Goto(p, "done", Return(None), c)
                      ELSE /\ UNCHANGED bucket
                           /\ Goto(p, "done", Raise(r.exc), c)
    /\ UNCHANGED <<objects, req>>
    /\ UNCHANGED session_vars

\* initialize's _create_bucket(retries=5): no exception of create_bucket is
\* caught.
InitializeCreate(p) ==
    /\ pc[p] = "create"
    /\ \E f \in Faults :
          LET r == create_bucket(f)
              c == Append(calls[p], Call("create_bucket", r))
          IN  IF Retries(r, CreateRetries, loc[p].attempts)
              THEN /\ loc' = [loc EXCEPT ![p].attempts = @ + 1]
                   /\ UNCHANGED <<bucket, pc, ret, calls>>
              ELSE /\ loc' = [loc EXCEPT ![p].attempts = 0]
                   /\ IF r.ok
                      THEN /\ bucket' = IF bucket = "absent" THEN "creating"
                                        ELSE bucket
                           /\ Goto(p, "wait", Running, c)
                      ELSE /\ UNCHANGED bucket
                           /\ Goto(p, "done", Raise(r.exc), c)
    /\ UNCHANGED <<objects, req>>
    /\ UNCHANGED session_vars

\* One poll of initialize's _wait_for_bucket.  The waiter turns the answer
\* of HeadBucket into success (the bucket is reported), retry (code 404) or
\* a WaiterError (any other error response, or no attempt left); WaiterError
\* is not a ClientError, so _wait_for_bucket does not catch it.
InitializeWait(p) ==
    /\ pc[p] = "wait"
    /\ \E f \in Faults :
          LET r == head_bucket(f)
              c == Append(calls[p], Call("head_bucket", r))
              n == loc[p].attempts + 1
          IN  IF r.ok
              THEN Goto(p, "done", Return(None), c) /\ UNCHANGED loc
              ELSE IF r.exc # "ClientError"
              THEN Goto(p, "done", Raise(r.exc), c) /\ UNCHANGED loc
              ELSE IF r.code # "404" \/ n >= WaitRetries
              THEN Goto(p, "done", Raise("WaiterError"), c) /\ UNCHANGED loc
              ELSE /\ Goto(p, "wait", Running, c)
                   /\ loc' = [loc EXCEPT ![p].attempts = n]
    /\ UNCHANGED <<bucket, objects, req>>
    /\ UNCHANGED session_vars

\* The backend starts to report a bucket that was created.
BucketReported ==
    /\ bucket = "creating"
    /\ bucket' = "exists"
    /\ UNCHANGED <<objects, pc, req, loc, calls, ret>>
    /\ UNCHANGED session_vars

Next ==
    \/ \E p \in Procs : Start(p)
    \/ \E p \in Procs : Finish(p)
    \/ \E p \in Procs : Deposit(p)
    \/ \E p \in Procs : DepositPreview(p)
    \/ \E p \in Procs : GetMetadata(p)
    \/ \E p \in Procs : GetPreviewChecksum(p)
    \/ \E p \in Procs : GetPreview(p)
    \/ \E p \in Procs : CheckPreviewExists(p)
    \/ \E p \in Procs : GetPreviewMetadata(p)
    \/ \E p \in Procs : ContentChecksum(p)
    \/ \E p \in Procs : ContentPreview(p)
    \/ \E p \in Procs : IsAvailable(p)
    \/ \E p \in Procs : ServiceStatus(p)
    \/ \E p \in Procs : InitializeProbe(p)
    \/ \E p \in Procs : InitializeCreate(p)
    \/ \E p \in Procs : InitializeWait(p)
    \/ BucketReported

Spec == Init /\ [][Next]_vars

\* ---------------------------------------------------------------- claims

Last(s) == s[Len(s)]

\* Worker p takes a step of its request.
Steps(p) == pc[p] \in {"called", "get", "create", "wait"} /\ pc'[p] # pc[p]

StoreOps ==
    {"deposit", "get_metadata", "get_preview_checksum", "get_preview",
     "is_available", "initialize"}

\* C1: a successful deposit followed immediately by get_preview of the same
\* identity returns a stream of the deposited bytes, positioned at the start,
\* and a metadata checksum equal to the base64 MD5 of those bytes.  The bytes
\* of the last successful deposit of an identity are objects[key].
C1_deposit_then_get_preview ==
    [][\A p \in Procs :
        (/\ pc[p] = "called" /\ req[p].op = "get_preview"
         /\ pc'[p] = "done"
         /\ objects[KeyOf(req[p])] # None
         /\ Last(calls'[p]).err = "none")
        => LET b == objects[KeyOf(req[p])][1]
           IN  /\ ret'[p].kind = "return"
               /\ ret'[p].value.content = Some(Content(Stream(b, 0)))
               /\ ret'[p].value.metadata # None
               /\ ret'[p].value.metadata[1].checksum = hash_content(b)]_vars

\* C2: when an object exists for an identity, a deposit for it without
\* overwrite fails with PreviewAlreadyExists (Conflict at the controller),
\* makes no write and leaves the stored object as it was.
C2_deposit_existing_fails ==
    [][\A p \in Procs :
        (/\ pc[p] = "called" /\ pc'[p] = "done"
         /\ \/ req[p].op = "deposit" /\ req[p].content # None
            \/ req[p].op = "deposit_preview" /\ ~req[p].overwrite
         /\ objects[KeyOf(req[p])] # None)
        => /\ ret'[p] = Raise(IF req[p].op = "deposit"
                              THEN "PreviewAlreadyExists" ELSE "Conflict")
           /\ calls'[p] = <<>>
           /\ objects' = objects]_vars

\* C3: when an object exists for an identity, a deposit for it with
\* overwrite=true that the backend accepts is answered Created, and the
\* bucket then holds the second payload, which is what later fetches return.
C3_deposit_overwrite_replaces ==
    [][\A p \in Procs :
        (/\ pc[p] = "called" /\ pc'[p] = "done"
         /\ req[p].op = "deposit_preview" /\ req[p].overwrite
         /\ bucket = "exists"
         /\ objects[KeyOf(req[p])] # None
         /\ \A i \in 1..Len(calls'[p]) : calls'[p][i].err = "none")
        => /\ ret'[p].kind = "return"
           /\ ret'[p].value.status = "CREATED"
           /\ objects'[KeyOf(req[p])] = Some(req[p].stream.bytes)]_vars

\* C4: for an identity that was never deposited, get_preview_checksum,
\* get_metadata and get_preview fail with DoesNotExist, whatever not-found
\* error the backend reports, and the controllers answer NotFound.
C4_never_deposited_does_not_exist ==
    \A p \in Procs :
        (/\ pc[p] = "done"
         /\ req[p].op \in {"get_preview_checksum", "get_metadata",
                           "get_preview", "check_preview_exists",
                           "get_preview_metadata", "get_preview_content"}
         /\ bucket = "exists"
         /\ objects[KeyOf(req[p])] = None
         /\ calls[p] # <<>>
         /\ \A i \in 1..Len(calls[p]) : calls[p][i].err \in {"404", "NoSuchKey"})
        => ret[p] = Raise(IF req[p].op \in StoreOps THEN "DoesNotExist"
                          ELSE "NotFound")

\* The full-content response for the stored bytes b.
FullContent(b) ==
    Return(Response(Stream(b, 0), "OK",
                    [ETag |-> S3ETag(b),
                     Content_type |-> "application/pdf",
                     Content_Length |-> Len(b)]))

C7_is_available_never_raises ==
    \A p \in Procs :
        (pc[p] = "done" /\ req[p].op = "is_available")
        => /\ ret[p].kind = "return"
           /\ ret[p].value = (calls[p][1].err = "none")

\* C8: two deposits for one identity, both started when the bucket held no
\* object for it, never both succeed.
C8_concurrent_deposits_exclude ==
    \A p, q \in Procs :
        (/\ p # q
         /\ pc[p] = "done" /\ pc[q] = "done"
         /\ req[p].op = "deposit" /\ req[q].op = "deposit"
         /\ KeyOf(req[p]) = KeyOf(req[q])
         /\ loc[p].pre = None /\ loc[q].pre = None)
        => ~(ret[p].kind = "return" /\ ret[q].kind = "return")

\* C9: whatever error the backend answers to deposit's write, deposit fails
\* with DepositFailed, and the controller with a server error.
C9_write_failure_is_deposit_failed ==
    \A p \in Procs :
        (/\ pc[p] = "done"
         /\ req[p].op \in {"deposit", "deposit_preview"}
         /\ calls[p] # <<>>
         /\ calls[p][1].err # "none")
        => ret[p] = Raise(IF req[p].op = "deposit" THEN "DepositFailed"
                          ELSE "InternalServerError")

\* The exceptions of the store's taxonomy.
Taxonomy ==
    {"NoSuchBucket", "DoesNotExist", "DepositFailed", "PreviewAlreadyExists",
     "RuntimeError"}

\* C10: every public store operation ends with a normal result or with an
\* exception of the store's taxonomy, whatever the backend answers.
C10_only_taxonomy_leaves_store ==
    \A p \in Procs :
        (pc[p] = "done" /\ req[p].op \in StoreOps)
        => \/ ret[p].kind = "return"
           \/ ret[p].exc \in Taxonomy

PutMissing == [call |-> "put_object", err |-> "NoSuchBucket"]
Created == [call |-> "create_bucket", err |-> "none"]
Polled(err) == [call |-> "head_bucket", err |-> err]

\* C11: when initialize's probe fails because the bucket does not exist,
\* initialize goes on to create the bucket; once it is created, initialize
\* polls for the bucket, again after every poll that does not find it, and
\* returns normally exactly when a poll reports the bucket, which then exists.
C11_initialize_creates_then_polls ==
    \A p \in Procs :
        req[p].op = "initialize" =>
            /\ pc[p] = "create" => calls[p] = <<PutMissing>>
            /\ pc[p] = "wait" =>
                  /\ Len(calls[p]) >= 2
                  /\ calls[p][1] = PutMissing /\ calls[p][2] = Created
                  /\ \A i \in 3..Len(calls[p]) : calls[p][i] = Polled("404")
            /\ (pc[p] = "done" /\ calls[p][1] = PutMissing) =>
                  /\ Len(calls[p]) >= 2
                  /\ calls[p][2].call = "create_bucket"
                  /\ calls[p][2] = Created =>
                        /\ Len(calls[p]) >= 3
                        /\ \A i \in 3..(Len(calls[p]) - 1) :
                              calls[p][i] = Polled("404")
                        /\ Last(calls[p]).call = "head_bucket"
                        /\ Last(calls[p]) = Polled("none")
                              <=> ret[p] = Return(None)
                        /\ Last(calls[p]) = Polled("none")
                              => bucket = "exists"
                        /\ Last(calls[p]) = Polled("404")
                              => Len(calls[p]) = WaitRetries + 2

\* C11 happens: an initialize whose probe found no bucket has created it,
\* polled without finding it, polled again and returned.
C11_witness ==
    \E p \in Procs :
        /\ pc[p] = "done" /\ req[p].op = "initialize"
        /\ calls[p][1] = PutMissing
        /\ Len(calls[p]) >= 4
        /\ ret[p] = Return(None)

\* C12: initialize returns normally only if its probe write succeeded, or
\* the bucket was created and then reported as existing; in every other
\* case it ends with an exception.
C12_initialize_returns_only_when_available ==
    \A p \in Procs :
        (pc[p] = "done" /\ req[p].op = "initialize") =>
            /\ ret[p].kind \in {"return", "raise"}
            /\ ret[p].kind = "return" <=>
                  \/ calls[p] = <<[call |-> "put_object", err |-> "none"]>>
                  \/ /\ Len(calls[p]) >= 3
                     /\ calls[p][2] = Created
                     /\ Last(calls[p]) = Polled("none")
            /\ ret[p].kind = "return" => bucket = "exists"

\* C12 happens: an initialize whose probe failed for another reason than a
\* missing bucket has ended with an exception.
C12_witness ==
    \E p \in Procs :
        /\ pc[p] = "done" /\ req[p].op = "initialize"
        /\ calls[p] = <<[call |-> "put_object", err |-> "InternalError"]>>
        /\ ret[p] = Raise("RuntimeError")

\* initialize is called at application start-up.
StartInitialize(p) ==
    /\ pc[p] = "idle"
    /\ req' = [req EXCEPT ![p] = [op |-> "initialize"]]
    /\ loc' = [loc EXCEPT ![p] = NoLocals]
    /\ Goto(p, "called", Running, <<>>)
    /\ UNCHANGED <<bucket, objects>>
    /\ UNCHANGED session_vars

BootNext ==
    \/ \E p \in Procs : StartInitialize(p)
    \/ \E p \in Procs : Finish(p)
    \/ \E p \in Procs : InitializeProbe(p)
    \/ \E p \in Procs : InitializeCreate(p)
    \/ \E p \in Procs : InitializeWait(p)
    \/ BucketReported

\* The start-up of the application's processes: each calls initialize.  The
\* calls to the backend are blocking calls that return (every client has
\* connect and read timeouts), so a worker that can take a step of
\* initialize takes one; nothing is assumed about what the backend answers.
BootSpec ==
    /\ Init
    /\ [][BootNext]_vars
    /\ \A p \in Procs :
          /\ WF_vars(InitializeProbe(p))
          /\ WF_vars(InitializeCreate(p))
          /\ WF_vars(InitializeWait(p))

\* The attempts of each phase of initialize stay within its budget.
WithinBudget ==
    \A p \in Procs :
        /\ (pc[p] = "called" /\ req[p].op = "initialize")
              => loc[p].attempts <= ProbeRetries
        /\ pc[p] = "create" => loc[p].attempts <= CreateRetries
        /\ pc[p] = "wait" => loc[p].attempts < WaitRetries

\* C13: initialize always terminates: the probe, the bucket creation and the
\* polling for the bucket each stay within a fixed number of attempts, and
\* every call of initialize ends, whatever the backend answers.
C13_initialize_terminates ==
    /\ []WithinBudget
    /\ \A p \in Procs : (req[p].op = "initialize") ~> (pc[p] = "done")


\* C13 happens: an initialize has ended after the last poll its budget
\* allows.
C13_witness ==
    \E p \in Procs :
        /\ pc[p] = "done" /\ req[p].op = "initialize"
        /\ Len(calls[p]) = WaitRetries + 2
        /\ ret[p] = Raise("WaiterError")

\* The entity tag a store operation returned.
TagOf(op, value) ==
    IF op = "get_preview_checksum" THEN value
    ELSE IF op = "get_metadata" THEN value.checksum
    ELSE value.metadata[1].checksum

\* C14: the entity tag a successful deposit returns is the content checksum
\* of the bytes it stored, and every later get_preview_checksum, get_metadata
\* and get_preview of that identity returns that same tag while the stored
\* object is the same; it is never the logical checksum of the identity.
C14_one_entity_tag ==
    [][\A p \in Procs :
        (/\ pc[p] = "called" /\ pc'[p] = "done"
         /\ req[p].op \in {"deposit", "get_preview_checksum", "get_metadata",
                           "get_preview"}
         /\ ret'[p].kind = "return")
        => LET stored == objects'[KeyOf(req[p])]
               tag == TagOf(req[p].op, ret'[p].value)
           IN  /\ stored # None
               /\ tag = hash_content(stored[1])
               /\ tag # req[p].checksum]_vars

\* C15: a Preview returned by deposit or get_preview has metadata; the one
\* deposit returns carries the identity of the request, the checksum
\* computed from the bytes read and their number as size_bytes; and a deposit
\* request that meets no conflict and no backend failure is answered by the
\* handler with status CREATED and that checksum in the body and as ETag.
C15_returned_preview_has_metadata ==
    [][\A p \in Procs :
        (pc[p] = "called" /\ pc'[p] = "done") =>
            /\ (req[p].op \in {"deposit", "get_preview"}
                   /\ ret'[p].kind = "return")
                  => ret'[p].value.metadata # None
            /\ (req[p].op = "deposit" /\ ret'[p].kind = "return")
                  => LET body == read(req[p].content[1].stream)
                     IN  /\ ret'[p].value.source_id = req[p].source_id
                         /\ ret'[p].value.checksum = req[p].checksum
                         /\ ret'[p].value.metadata
                               = Some(Metadata(hash_content(body), Len(body)))
            /\ (/\ req[p].op = "deposit_preview"
                /\ objects[KeyOf(req[p])] = None \/ req[p].overwrite
                /\ \A i \in 1..Len(calls'[p]) : calls'[p][i].err = "none")
                  => LET body == read(req[p].stream)
                     IN  ret'[p] = Return(Response(
                             [checksum |-> hash_content(body),
                              size_bytes |-> Len(body)],
                             "CREATED",
                             [ETag |-> hash_content(body)]))]_vars

\* C16: a deposit request that supplies an expected content checksum, and
\* meets no conflict, reaches the backend as a put_object carrying that
\* value as its integrity check; when the bytes do not match the supplied
\* checksum the backend rejects the write, the deposit fails and the stored
\* objects are unchanged.
C16_supplied_checksum_is_integrity_check ==
    [][\A p \in Procs :
        (/\ pc[p] = "called" /\ pc'[p] = "done"
         /\ req[p].op = "deposit_preview"
         /\ req[p].content_checksum # None
         /\ objects[KeyOf(req[p])] = None \/ req[p].overwrite)
        => LET body == read(req[p].stream)
           IN  /\ calls'[p] # <<>>
               /\ Last(calls'[p]).call = "put_object"
               /\ req[p].content_checksum # Some(hash_content(body))
                     => /\ Last(calls'[p]).err # "none"
                        /\ ret'[p].kind = "raise"
                        /\ objects' = objects]_vars

\* C17: a deposit of a preview without content ends with DepositFailed,
\* having made no backend call and changed neither the bucket nor its
\* objects.
C17_missing_content_fails_first ==
    [][\A p \in Procs :
        (/\ pc[p] = "called" /\ pc'[p] = "done"
         /\ req[p].op = "deposit" /\ req[p].content = None)
        => /\ ret'[p] = Raise("DepositFailed")
           /\ calls'[p] = <<>>
           /\ objects' = objects
           /\ bucket' = bucket]_vars

\* C17 happens: a deposit without content has ended.
C17_witness ==
    \E p \in Procs :
        /\ pc[p] = "done"
        /\ req[p].op = "deposit" /\ req[p].content = None
        /\ ret[p] = Raise("DepositFailed")

\* PreviewStore's methods take any two strings as an identity.  Identities
\* called on the store directly: source ids and checksums with and without
\* the separator "/" of the key.
StoreIdentities ==
    {<<"1234", "1234/foohash1==/1234">>, <<"1234/1234", "foohash1==">>,
     <<"5678", "foohash1==">>, <<"5678", "barhash2==">>}

StoreRequests ==
    {[op |-> "deposit", source_id |-> i[1], checksum |-> i[2],
      content |-> Some(Content(Stream(b, 0)))] :
        i \in StoreIdentities, b \in Bodies}
    \cup {[op |-> o, source_id |-> i[1], checksum |-> i[2]] :
            o \in {"get_metadata", "get_preview_checksum", "get_preview"},
            i \in StoreIdentities}

\* The store after initialize: the bucket exists and holds no preview.
StoreInit ==
    /\ SessionInit
    /\ bucket = "exists"
    /\ objects = [k \in {_key(i[1], i[2]) : i \in StoreIdentities}
                          \cup {StatKey} |-> None]
    /\ pc = [p \in Procs |-> "idle"]
    /\ req = [p \in Procs |-> NoRequest]
    /\ loc = [p \in Procs |-> NoLocals]
    /\ calls = [p \in Procs |-> <<>>]
    /\ ret = [p \in Procs |-> Running]

\* A method of the store is called by idle worker p.
StoreStart(p) ==
    /\ pc[p] = "idle"
    /\ \E r \in StoreRequests :
          /\ req' = [req EXCEPT ![p] = r]
          /\ loc' = [loc EXCEPT ![p] =
                        [pre |-> objects[KeyOf(r)], attempts |-> 0]]
    /\ Goto(p, "called", Running, <<>>)
    /\ UNCHANGED <<bucket, objects>>
    /\ UNCHANGED session_vars

StoreNext ==
    \/ \E p \in Procs : StoreStart(p)
    \/ \E p \in Procs : Finish(p)
    \/ \E p \in Procs : Deposit(p)
    \/ \E p \in Procs : GetMetadata(p)
    \/ \E p \in Procs : GetPreviewChecksum(p)
    \/ \E p \in Procs : GetPreview(p)

StoreSpec == StoreInit /\ [][StoreNext]_vars

HasSlash(s) == \E i \in 1..Len(s) : SubSeq(s, i, i) = "/"
IdentityOf(r) == <<r.source_id, r.checksum>>

\* What the backend holds for identity i, as the retrievals report it.
Held(i) == objects[_key(i[1], i[2])]

\* The operation that ends with this step reads or writes the object at the
\* key of its own identity: a successful deposit stores its bytes there, and
\* a successful retrieval returns what is held there.
SameKey(p) ==
    ret'[p].kind = "return" =>
        LET i == IdentityOf(req[p])
            v == ret'[p].value
        IN  CASE req[p].op = "deposit" ->
                    objects'[_key(i[1], i[2])]
                        = Some(read(req[p].content[1].stream))
              [] req[p].op = "get_preview" ->
                    /\ Held(i) # None
                    /\ v.content = Some(Content(Stream(Held(i)[1], 0)))
              [] req[p].op = "get_metadata" ->
                    /\ Held(i) # None
                    /\ v.size_bytes = Len(Held(i)[1])
              [] req[p].op = "get_preview_checksum" ->
                    /\ Held(i) # None
                    /\ v = S3ETag(Held(i)[1])

\* C18 as stated: the keys of any two distinct identities differ, so a
\* deposit under one identity leaves what is held for every other identity
\* as it was; and every operation addresses its identity through that key.
C18_keys_differ ==
    [][\A p \in Procs :
        (pc[p] = "called" /\ pc'[p] = "done") =>
            /\ SameKey(p)
            /\ \A j \in StoreIdentities \ {IdentityOf(req[p])} :
                  /\ _key(j[1], j[2]) # KeyOf(req[p])
                  /\ Held(j)' = Held(j)]_vars

\* C18, amended: the keys of any two distinct identities whose source ids
\* contain no "/" differ, so a deposit under one of them leaves what is held
\* for the other as it was; and every operation addresses its identity
\* through that key.
C18_keys_of_plain_source_ids_differ ==
    [][\A p \in Procs :
        (pc[p] = "called" /\ pc'[p] = "done") =>
            /\ SameKey(p)
            /\ \A j \in StoreIdentities \ {IdentityOf(req[p])} :
                  (~HasSlash(req[p].source_id) /\ ~HasSlash(j[1])) =>
                      /\ _key(j[1], j[2]) # KeyOf(req[p])
                      /\ Held(j)' = Held(j)]_vars

\* C18 happens: a deposit under an identity with a plain source id has
\* succeeded while the backend holds other bytes for another such identity.
C18_witness ==
    \E p \in Procs :
        /\ pc[p] = "done" /\ req[p].op = "deposit"
        /\ ret[p].kind = "return"
        /\ ~HasSlash(req[p].source_id)
        /\ \E j \in StoreIdentities \ {IdentityOf(req[p])} :
              /\ ~HasSlash(j[1])
              /\ Held(j) # None
              /\ Held(j) # Held(IdentityOf(req[p]))

\* The answer of the backend that a call record stands for, as far as the
\* store's error handling tells answers apart.
Answer(c) ==
    IF c.err = "none" THEN OkResp([ETag |-> S3ETag("test")])
    ELSE IF c.err = "BotoCoreError" THEN BotoCoreError
    ELSE ClientError(c.err)

\* C19: the status handler answers OK exactly when its is_available call
\* returned true, and raises ServiceUnavailable when it returned false.
C19_status_follows_is_available ==
    \A p \in Procs :
        (pc[p] = "done" /\ req[p].op = "service_status") =>
            LET a == is_available(Answer(Last(calls[p])))
            IN  /\ ret[p] = Return(Response([iam |-> "ok"], "OK", <<>>))
                      <=> a = Return(TRUE)
                /\ a = Return(FALSE) => ret[p] = Raise("ServiceUnavailable")

\* C19 happens: the status handler has ended after a probe that failed.
C19_witness ==
    \E p \in Procs :
        /\ pc[p] = "done" /\ req[p].op = "service_status"
        /\ Last(calls[p]).err = "InternalError"
        /\ ret[p] = Raise("ServiceUnavailable")

\* C20: a deposit with overwrite=true of the bytes the backend already holds
\* for the identity, accepted by the backend, returns the checksum and
\* size_bytes of those bytes, as the first deposit did, and leaves the stored
\* objects as they were after the first.
C20_overwrite_is_idempotent ==
    [][\A p \in Procs :
        (/\ pc[p] = "called" /\ pc'[p] = "done"
         /\ req[p].op = "deposit_preview" /\ req[p].overwrite
         /\ bucket = "exists"
         /\ objects[KeyOf(req[p])] = Some(read(req[p].stream))
         /\ \A i \in 1..Len(calls'[p]) : calls'[p][i].err = "none")
        => LET body == read(req[p].stream)
           IN  /\ ret'[p].kind = "return"
               /\ ret'[p].value.data = [checksum |-> hash_content(body),
                                        size_bytes |-> Len(body)]
               /\ objects' = objects]_vars

\* The operations whose backend call is wrapped by the error translation and
\* that leave its exception to their caller.
Translating == {"get_metadata", "get_preview_checksum", "get_preview"}

\* The codes of the error responses a backend call was answered.
ErrorCode(c) == c.err \notin {"none", "BotoCoreError"}

C22_retrieval_changes_nothing ==
    [][\A p \in Procs :
        (/\ pc[p] = "called" /\ pc'[p] = "done"
         /\ req[p].op \in Translating)
        => /\ objects' = objects
           /\ bucket' = bucket]_vars

\* C22 happens: a retrieval of a stored object has returned, and another
\* has failed.
C22_witness ==
    \E p, q \in Procs :
        /\ pc[p] = "done" /\ req[p].op = "get_preview"
        /\ ret[p].kind = "return"
        /\ objects[KeyOf(req[p])] # None
        /\ pc[q] = "done" /\ req[q].op \in Translating
        /\ ret[q].kind = "raise"

\* The names of the backend calls a worker has made for its request.
Made(p) == [i \in 1..Len(calls[p]) |-> calls[p][i].call]

\* The operations of the store a handler's request has called so far, each
\* with the backend calls it may make: one, or for deposit an existence check
\* and then a write.  get_preview_content calls get_preview_checksum and then
\* get_preview.
OneCallEach(op) ==
    CASE op \in {"deposit", "deposit_preview"} ->
            {<<>>, <<"put_object">>, <<"head_object">>,
             <<"head_object", "put_object">>}
      [] op \in {"get_metadata", "get_preview_checksum",
                 "check_preview_exists", "get_preview_metadata"} ->
            {<<>>, <<"head_object">>}
      [] op = "get_preview" -> {<<>>, <<"get_object">>}
      [] op = "get_preview_content" ->
            {<<>>, <<"head_object">>, <<"get_object">>,
             <<"head_object", "get_object">>}
      [] op \in {"is_available", "service_status"} ->
            {<<>>, <<"put_object">>}

\* C23: every operation of the store that a handler calls makes at most one
\* backend call (deposit at most an existence check and then a write), and a
\* request makes a call only after its previous call was answered: before
\* its first step it has made none, and get_preview_content makes its
\* get_object after the answer to its head_object.
C23_one_backend_call_per_operation ==
    \A p \in Procs :
        req[p].op \notin {"none", "initialize"} =>
            /\ Made(p) \in OneCallEach(req[p].op)
            /\ pc[p] = "called" => calls[p] = <<>>
            /\ pc[p] = "get" =>
                  /\ req[p].op = "get_preview_content"
                  /\ Made(p) = <<"head_object">>
                  /\ calls[p][1].err = "none"

\* C23 happens: the content handler has called two operations of the store,
\* and a status request has ended after its client sent the probe again.
C23_witness ==
    \E p, q \in Procs :
        /\ pc[p] = "done" /\ req[p].op = "get_preview_content"
        /\ Len(calls[p]) = 2
        /\ pc[q] = "done" /\ req[q].op = "service_status"
        /\ calls[q] = <<[call |-> "put_object", err |-> "InternalError"]>>

\* The application's configuration as init_app leaves it.
app_config ==
    [S3_BUCKET |-> "submission-preview", S3_VERIFY |-> TRUE,
     AWS_REGION |-> "us-east-1", S3_ENDPOINT |-> None,
     AWS_ACCESS_KEY_ID |-> None, AWS_SECRET_ACCESS_KEY |-> None]

\* PreviewStore.__init__: the attributes of a new store.
PreviewStore(bucket_name, verify, region_name, endpoint_url, key_id, key) ==
    [_bucket |-> bucket_name, _region_name |-> region_name,
     _endpoint_url |-> endpoint_url, _verify |-> verify,
     _aws_access_key_id |-> key_id, _aws_secret_access_key |-> key]

\* PreviewStore.get_session: a new store from the application's configuration.
get_session ==
    PreviewStore(app_config.S3_BUCKET, app_config.S3_VERIFY,
                 app_config.AWS_REGION, app_config.S3_ENDPOINT,
                 app_config.AWS_ACCESS_KEY_ID,
                 app_config.AWS_SECRET_ACCESS_KEY)

\* Sessions constructed in one run of the model.
MaxSessions == 3

\* Worker p enters an application context: its application global is empty.
EnterContext(p) ==
    /\ g[p] = None
    /\ g' = [g EXCEPT ![p] = Some([store |-> None])]
    /\ returned' = [returned EXCEPT ![p] = {}]
    /\ UNCHANGED <<sessions, bucket, objects, pc, req, loc, calls, ret>>

\* Worker p leaves its application context, whose global is discarded.
LeaveContext(p) ==
    /\ g[p] # None
    /\ g' = [g EXCEPT ![p] = None]
    /\ returned' = [returned EXCEPT ![p] = {}]
    /\ UNCHANGED <<sessions, bucket, objects, pc, req, loc, calls, ret>>

\* PreviewStore.current_session, called by worker p.  A session is named by
\* its position in sessions.
CurrentSession(p) ==
    /\ LET new == Len(sessions) + 1
       IN  IF g[p] = None
           THEN /\ new <= MaxSessions
                /\ sessions' = Append(sessions, get_session)
                /\ returned' = [returned EXCEPT ![p] = @ \cup {new}]
                /\ UNCHANGED g
           ELSE IF g[p][1].store = None
           THEN /\ new <= MaxSessions
                /\ sessions' = Append(sessions, get_session)
                /\ g' = [g EXCEPT ![p] = Some([store |-> Some(new)])]
                /\ returned' = [returned EXCEPT ![p] = @ \cup {new}]
           ELSE /\ returned' = [returned EXCEPT
                                   ![p] = @ \cup {g[p][1].store[1]}]
                /\ UNCHANGED <<g, sessions>>
    /\ UNCHANGED <<bucket, objects, pc, req, loc, calls, ret>>

SessionNext ==
    \/ \E p \in Procs : EnterContext(p)
    \/ \E p \in Procs : LeaveContext(p)
    \/ \E p \in Procs : CurrentSession(p)

SessionSpec == Init /\ [][SessionNext]_vars

\* Within one application context current_session returns one session.
OneSessionInContext ==
    \A p \in Procs : g[p] # None => Cardinality(returned[p]) <= 1

\* Outside any application context current_session returns one session.
OneSessionOutside ==
    \A p \in Procs : g[p] = None => Cardinality(returned[p]) <= 1

\* The attributes of a constructed session stay as they were set.
SessionsKept ==
    /\ Len(sessions') >= Len(sessions)
    /\ \A i \in 1..Len(sessions) : sessions'[i] = sessions[i]

\* C24: every call of current_session within one request scope returns the
\* same session; with no request scope every call returns the one session
\* created at the first call; and a session's configuration never changes.
C24_one_session_per_scope ==
    /\ []OneSessionInContext
    /\ []OneSessionOutside
    /\ [][SessionsKept]_vars

\* C25: a deposit that ends with an exception, at the store or at the
\* handler, leaves the bucket and every stored object, the one of its own
\* identity included, as they were before it.
C25_failed_deposit_changes_nothing ==
    [][\A p \in Procs :
        (/\ pc[p] = "called" /\ pc'[p] = "done"
         /\ req[p].op \in {"deposit", "deposit_preview"}
         /\ ret'[p].kind = "raise")
        => /\ objects' = objects
           /\ bucket' = bucket]_vars

\* C25 happens: a deposit for an identity that has an object has failed at
\* its write.
C25_witness ==
    \E p \in Procs :
        /\ pc[p] = "done" /\ req[p].op = "deposit"
        /\ calls[p] # <<>>
        /\ ret[p] = Raise("DepositFailed")
        /\ objects[KeyOf(req[p])] # None

\* C26: in every full-content response of the content handler the entity
\* tag is the backend's tag of the bytes in the body and Content-Length is
\* their number, whatever other requests wrote while it was served.
C26_headers_describe_body ==
    \A p \in Procs :
        (/\ pc[p] = "done" /\ req[p].op = "get_preview_content"
         /\ ret[p].kind = "return"
         /\ ret[p].value.status = "OK")
        => LET body == ret[p].value.data
           IN  /\ body.pos = 0
               /\ ret[p].value.headers.ETag = S3ETag(body.bytes)
               /\ ret[p].value.headers.Content_Length = Len(body.bytes)

\* C26 happens: the checksum query found an object other than "foocontent"
\* (the supplied tag, that of "foocontent", did not match), and the
\* get_preview that followed returned "foocontent", deposited in between.
C26_witness ==
    \E p \in Procs :
        /\ pc[p] = "done" /\ req[p].op = "get_preview_content"
        /\ req[p].none_match = Some(S3ETag("foocontent"))
        /\ Len(calls[p]) = 2
        /\ ret[p].kind = "return"
        /\ ret[p].value.status = "OK"
        /\ ret[p].value.data.bytes = "foocontent"

\* What the three retrievals return for identity i when the backend answers
\* them as it stands.
Results(i) ==
    LET key == _key(i[1], i[2])
    IN  <<get_preview_checksum(head_object(key, "none")),
          get_metadata(head_object(key, "none")),
          get_preview(i[1], i[2], get_object(key, "none"))>>

\* What a retrieval returns for some identity changes at this step; it
\* depends on the bucket and its objects only.
ResultsChange ==
    /\ <<bucket, objects>>' # <<bucket, objects>>
    /\ \E i \in Identities : Results(i)' # Results(i)

\* A deposit is written at this step.
DepositStep ==
    \E p \in Procs :
        /\ req[p].op \in {"deposit", "deposit_preview"}
        /\ pc[p] = "called" /\ pc'[p] = "done"

\* Worker p takes a step of is_available or initialize.
ProbeStep(p) ==
    /\ req[p].op \in {"is_available", "service_status", "initialize"}
    /\ <<pc[p], loc[p], calls[p]>>' # <<pc[p], loc[p], calls[p]>>

\* C27 as stated: the test object's key is the key of no identity, and
\* is_available and initialize never change what a retrieval returns for any
\* identity: it changes at the write of a deposit only.
C27_probes_never_change_results ==
    [][/\ \A i \in Identities : _key(i[1], i[2]) # StatKey
       /\ ResultsChange => DepositStep]_vars

\* C27, amended: the test object's key is the key of no identity, a step of
\* is_available or initialize leaves the object of every identity as it was,
\* and what a retrieval returns for an identity changes only at the write of
\* a deposit or when the bucket that initialize created comes to exist.
C27_probes_keep_objects ==
    [][/\ \A i \in Identities : _key(i[1], i[2]) # StatKey
       /\ \A p \in Procs :
             ProbeStep(p) => \A i \in Identities : Held(i)' = Held(i)
       /\ ResultsChange => DepositStep \/ bucket' # bucket]_vars

\* C27 happens: a probe has written its test object into a bucket that holds
\* the object of an identity.
C27_witness ==
    /\ objects[StatKey] = Some("test")
    /\ \E i \in Identities : Held(i) # None
    /\ \E p \in Procs :
          /\ pc[p] = "done" /\ req[p].op \in {"is_available", "initialize"}
          /\ ret[p].kind = "return"

====
